---- MODULE Spec2Model ----
(***************************************************************************)
(* Model of the QR attendance backend: the session lifecycle               *)
(* (generateSessionQR, its setTimeout expiry callback, markAttendance),    *)
(* the read-only handlers (getAttendanceReport, getSessionDetails) and the *)
(* express error middleware.  The document store is the Attendance         *)
(* collection.  A save() of a loaded document sends only the modified      *)
(* paths ($push for an array push, $set for an assigned field) and each    *)
(* such update is atomic on the stored document.  Every await on the store *)
(* may reject; the rejection is the `fault` input of the step.             *)
(***************************************************************************)
EXTENDS Integers, Sequences, FiniteSets, TLC

\* ---------------------------------------------------------------- bounds
\* Sessions created, redemptions stored or on their way, clock steps.
MaxSessions == 2
MaxRedeems == 2
MaxTicks == 3

\* ------------------------------------------------------ program constants
VALIDITY_MS == 2 * 60 * 1000
EXPIRY_DELAY_MS == 2 * 60 * 1000
DAY_MS == 24 * 60 * 60 * 1000
OBJECT_ID_LENGTH == 24

\* The clock moves in steps of half a validity window and starts one step
\* before a UTC midnight, so that sessions fall on two calendar dates.
TickMs == VALIDITY_MS \div 2
StartMs == DAY_MS - TickMs
MaxClock == StartMs + MaxTicks * TickMs

\* ----------------------------------------------------------------- inputs
\* Faculty f1 creates the sessions; f1 and f2 ask for details and reports.
Faculty == {"f1", "f2"}
Creators == {"f1"}
Students == {"s1", "s2"}
Subjects == {"CS101", "MA201"}
ClassRooms == {"A1"}
NoUser == "null"
Missing == ""
NoDoc == [absent |-> TRUE]
NoBody == [none |-> TRUE]
SessionIds == 1..MaxSessions
Redeemers == SessionIds \X Students

\* A qrCode no session carries.
BogusQr == MaxSessions + 1

\* Request parameter :sessionId.  A string is modelled by its length,
\* whether it is hexadecimal, and the document whose _id it spells.
ObjectIdOf(s) == [length |-> OBJECT_ID_LENGTH, hex |-> TRUE, oid |-> s]
SessionIdInputs ==
  {ObjectIdOf(s) : s \in SessionIds}
    \cup {[length |-> OBJECT_ID_LENGTH, hex |-> FALSE, oid |-> MaxSessions + 1],
          [length |-> OBJECT_ID_LENGTH \div 2, hex |-> TRUE, oid |-> MaxSessions + 1]}

\* <<startDate, endDate>> of a report request; NoDate is an absent field.
NoDate == 0
DateRanges ==
  {<<NoDate, NoDate>>, <<StartMs + TickMs, NoDate>>, <<StartMs + TickMs, MaxClock>>}

\* req.body.subject of a report request: absent, or one subject.
SubjectFilters == {Missing, "CS101"}

\* populate("markedStudents", "name email")
User(student) ==
  [_id |-> student, name |-> <<"name", student>>, email |-> <<"email", student>>]

VARIABLES now, nodeEnv, store, timers, inflight, res

vars == <<now, nodeEnv, store, timers, inflight, res>>

\* ------------------------------------------------------------- responses
\* res.status(code).json({message, error?, ...data}); `error` tells whether
\* the body carries error.message.  `req` keeps the request answered.
Response(op, req, code, message, error, data) ==
  [op |-> op, req |-> req, code |-> code, message |-> message,
   error |-> error, data |-> data]

\* The step sent no response.
NoResponse == Response("none", NoBody, 0, "", FALSE, NoBody)

MSG_UNAUTH == "Unauthorized: Faculty ID missing"
MSG_REQUIRED == "Subject and Classroom are required"
MSG_GEN_ERR == "Error generating QR code"
MSG_GEN_OK == "Session QR code generated successfully"
MSG_INVALID == "Invalid or expired QR code"
MSG_ALREADY == "Attendance already marked for this session"
MSG_MARK_OK == "Attendance marked successfully"
MSG_MARK_ERR == "Error marking attendance"
MSG_REPORT_ERR == "Error generating report"
MSG_ID_REQUIRED == "Session ID is required"
MSG_ID_FORMAT == "Invalid session ID format"
MSG_EXISTS_ERR == "Error checking session existence"
MSG_NOT_FOUND == "Session not found"
MSG_FIND_ERR == "Error finding session"
MSG_NO_ACCESS == "You don't have access to this session"
MSG_WRONG == "Something went wrong!"

\* ----------------------------------------------------------------- store
Stored == {s \in SessionIds : store[s] # NoDoc}

\* _id of the next document and the token randomBytes(32) returns for it:
\* both are fresh values, modelled by the index of the document.
NextId == Cardinality(Stored) + 1

FindOneActive_NoWindow(qrCode, t) ==
  LET match == {s \in Stored : /\ store[s].qrCode = qrCode
                                /\ store[s].status = "active"}
  IN IF match = {} THEN 0
     ELSE CHOOSE s \in match : \A o \in match : s <= o

\* Attendance.findOne({qrCode, sessionDate: {$gte: t - 2 min}, status: 'active'})
\* The result is the document's index, or 0 for null.
FindOneActive(qrCode, t) ==
  LET match == {s \in Stored : /\ store[s].qrCode = qrCode
                                /\ store[s].sessionDate >= t - VALIDITY_MS
                                /\ store[s].status = "active"}
  IN IF match = {} THEN 0
     ELSE CHOOSE s \in match : \A o \in match : s <= o

Includes_ByIdentity(marked, student) == FALSE

\* markedStudents.includes(student.toString())
Includes(marked, student) == \E i \in 1..Len(marked) : marked[i] = student

SavePush_WholeDocument(doc, student) ==
  [doc EXCEPT !.markedStudents = Append(@, student), !.status = "active"]

SavePush_Assign(doc, student) ==
  [doc EXCEPT !.markedStudents = <<student>>]

\* session.markedStudents.push(student); session.save(): $push on the
\* stored document, every other path left as stored.
SavePush(doc, student) ==
  [doc EXCEPT !.markedStudents = Append(@, student)]

\* session.status = 'expired'; session.save(): $set of status only.
SaveExpired(doc) == [doc EXCEPT !.status = "expired"]

TimerDue_Immediate(t) == t

\* setTimeout(callback, 2 * 60 * 1000) called at time t.
TimerDue(t) == t + EXPIRY_DELAY_MS

\* Redemptions that reached the store or are on their way to it.
Redeems ==
  LET RECURSIVE Sum(_)
      Sum(R) == IF R = {} THEN 0
                ELSE LET r == CHOOSE x \in R : TRUE
                     IN inflight[r] + Sum(R \ {r})
      RECURSIVE Marked(_)
      Marked(S) == IF S = {} THEN 0
                   ELSE LET x == CHOOSE y \in S : TRUE
                        IN Len(store[x].markedStudents) + Marked(S \ {x})
  IN Sum(Redeemers) + Marked(Stored)

\* ------------------------------------------------------------------ Init
Init ==
  /\ now = StartMs
  /\ nodeEnv \in {"development", "production"}
  /\ store = [s \in SessionIds |-> NoDoc]
  /\ timers = {}
  /\ inflight = [r \in Redeemers |-> 0]
  /\ res = NoResponse

\* --------------------------------------------------------------- actions
\* Time passes.
Tick ==
  /\ now + TickMs <= MaxClock
  /\ now' = now + TickMs
  /\ res' = NoResponse
  /\ UNCHANGED <<nodeEnv, store, timers, inflight>>

\* generateSessionQR(req, res)
generateSessionQR(faculty, subject, classRoom, rngFault, saveFault) ==
  LET id == NextId
  IN
  /\ id <= MaxSessions
  /\ TimerDue(now) <= MaxClock
  /\ UNCHANGED <<now, nodeEnv, inflight>>
  /\ IF faculty = NoUser THEN
       /\ res' = Response("generate", NoBody, 401, MSG_UNAUTH, FALSE, NoBody)
       /\ UNCHANGED <<store, timers>>
     ELSE IF subject = Missing \/ classRoom = Missing THEN
       /\ res' = Response("generate", NoBody, 400, MSG_REQUIRED, FALSE, NoBody)
       /\ UNCHANGED <<store, timers>>
     ELSE IF rngFault THEN
       /\ res' = Response("generate", NoBody, 500, MSG_GEN_ERR, FALSE, NoBody)
       /\ UNCHANGED <<store, timers>>
     ELSE IF saveFault THEN
       /\ res' = Response("generate", NoBody, 500, MSG_GEN_ERR, TRUE, NoBody)
       /\ UNCHANGED <<store, timers>>
     ELSE
       /\ store' = [store EXCEPT ![id] =
                      [faculty |-> faculty, subject |-> subject,
                       sessionDate |-> now, qrCode |-> id,
                       classRoom |-> classRoom, markedStudents |-> <<>>,
                       status |-> "active"]]
       /\ timers' = timers \cup {[sid |-> id, due |-> TimerDue(now),
                                  pc |-> "armed"]}
       /\ res' = Response("generate", NoBody, 200, MSG_GEN_OK, FALSE,
                          [qrCode |-> id, sessionId |-> id,
                           expiresIn |-> "2 minutes"])

\* The setTimeout callback, up to the await on save().
ExpiryFire(t, fault) ==
  /\ t \in timers
  /\ t.pc = "armed"
  /\ now >= t.due
  /\ LET session == store[t.sid]
         next == IF fault THEN "failed"
                 ELSE IF session # NoDoc /\ session.status = "active"
                      THEN "saving" ELSE "done"
     IN timers' = (timers \ {t}) \cup {[t EXCEPT !.pc = next]}
  /\ res' = NoResponse
  /\ UNCHANGED <<now, nodeEnv, store, inflight>>

\* The setTimeout callback, from the completion of save().
ExpirySave(t, fault) ==
  /\ t \in timers
  /\ t.pc = "saving"
  /\ IF fault THEN
       /\ timers' = (timers \ {t}) \cup {[t EXCEPT !.pc = "failed"]}
       /\ UNCHANGED store
     ELSE
       /\ timers' = (timers \ {t}) \cup {[t EXCEPT !.pc = "done"]}
       /\ store' = [store EXCEPT ![t.sid] = SaveExpired(@)]
  /\ res' = NoResponse
  /\ UNCHANGED <<now, nodeEnv, inflight>>

\* markAttendance(req, res), up to the await on save().
markAttendance(student, qrCode, fault) ==
  LET req == [student |-> student, qrCode |-> qrCode]
      session == FindOneActive(qrCode, now)
  IN
  /\ Redeems < MaxRedeems
  /\ UNCHANGED <<now, nodeEnv, store, timers>>
  /\ IF fault THEN
       /\ res' = Response("mark", req, 500, MSG_MARK_ERR, TRUE, NoBody)
       /\ UNCHANGED inflight
     ELSE IF session \notin SessionIds THEN
       /\ res' = Response("mark", req, 400, MSG_INVALID, FALSE, NoBody)
       /\ UNCHANGED inflight
     ELSE IF Includes(store[session].markedStudents, student) THEN
       /\ res' = Response("mark", req, 400, MSG_ALREADY, FALSE, NoBody)
       /\ UNCHANGED inflight
     ELSE
       /\ inflight' = [inflight EXCEPT ![<<session, student>>] = @ + 1]
       /\ res' = NoResponse

\* markAttendance(req, res), from the completion of save().
markAttendanceSave(r, fault) ==
  /\ inflight[r] > 0
  /\ LET req == [student |-> r[2], qrCode |-> store[r[1]].qrCode]
     IN IF fault THEN
          /\ res' = Response("mark", req, 500, MSG_MARK_ERR, TRUE, NoBody)
          /\ UNCHANGED store
        ELSE
          /\ store' = [store EXCEPT ![r[1]] = SavePush(@, r[2])]
          /\ res' = Response("mark", req, 200, MSG_MARK_OK, FALSE, NoBody)
  /\ inflight' = [inflight EXCEPT ![r] = @ - 1]
  /\ UNCHANGED <<now, nodeEnv, timers>>

\* app.use((err, req, res, next) => ...): an error handed to next(err) by
\* the middleware in front of the controllers.
errorMiddleware ==
  /\ res' = Response("middleware", NoBody, 500, MSG_WRONG,
                     nodeEnv = "development", NoBody)
  /\ UNCHANGED <<now, nodeEnv, store, timers, inflight>>

\* ------------------------------------------------------ getAttendanceReport
\* Attendance.find(query): the documents of `faculty`, of `subject` when it
\* is given, created in [startDate, endDate] when both are given.
FindForReport(faculty, subject, startDate, endDate) ==
  {s \in Stored :
     /\ store[s].faculty = faculty
     /\ (subject # Missing => store[s].subject = subject)
     /\ ((startDate # NoDate /\ endDate # NoDate) =>
           (store[s].sessionDate >= startDate /\ store[s].sessionDate <= endDate))}

\* .sort({sessionDate: -1}): latest first, store order among equal dates.
RECURSIVE SortByDateDesc(_)
SortByDateDesc(S) ==
  IF S = {} THEN <<>>
  ELSE LET first == CHOOSE s \in S : \A o \in S :
                      \/ store[s].sessionDate > store[o].sessionDate
                      \/ store[s].sessionDate = store[o].sessionDate /\ s <= o
       IN <<first>> \o SortByDateDesc(S \ {first})

\* record.sessionDate.toISOString().split("T")[0]: the UTC calendar date,
\* modelled by the number of the day.
IsoDate(t) == t \div DAY_MS

\* The empty Map of line 130: no subject has an entry.
EmptyReport ==
  [subjects |-> {},
   totalSessions |-> [su \in Subjects |-> {}],
   attendanceCount |-> [su \in Subjects |-> [st \in Students |-> 0]]]

\* record.markedStudents.forEach(...): one increment per array element.
RECURSIVE CountStudents(_, _)
CountStudents(marked, count) ==
  IF marked = <<>> THEN count
  ELSE CountStudents(Tail(marked), [count EXCEPT ![Head(marked)] = @ + 1])

\* The body of attendanceRecords.forEach for one record.
AddRecord(report, record) ==
  [subjects |-> report.subjects \cup {record.subject},
   totalSessions |->
     [report.totalSessions EXCEPT
        ![record.subject] = @ \cup {IsoDate(record.sessionDate)}],
   attendanceCount |->
     [report.attendanceCount EXCEPT
        ![record.subject] = CountStudents(record.markedStudents, @)]]

RECURSIVE BuildReport(_, _)
BuildReport(records, report) ==
  IF records = <<>> THEN report
  ELSE BuildReport(Tail(records), AddRecord(report, store[Head(records)]))

\* Number(((count / total) * 100).toFixed(2)), in hundredths of a percent.
AttendancePercentage(count, total) == (2 * count * 10000 + total) \div (2 * total)

\* formattedReport: subject -> {totalSessions, students}; a student has an
\* entry once an increment created it.
FormatReport(report) ==
  [su \in report.subjects |->
     LET totalSessions == Cardinality(report.totalSessions[su])
         present == {st \in Students : report.attendanceCount[su][st] > 0}
     IN [totalSessions |-> totalSessions,
         students |->
           [st \in present |->
              [name |-> User(st).name, email |-> User(st).email,
               attendanceCount |-> report.attendanceCount[su][st],
               attendancePercentage |->
                 AttendancePercentage(report.attendanceCount[su][st],
                                      totalSessions)]]]]

\* getAttendanceReport(req, res)
getAttendanceReport(faculty, subject, startDate, endDate, fault) ==
  LET req == [faculty |-> faculty, subject |-> subject,
              startDate |-> startDate, endDate |-> endDate]
      records == SortByDateDesc(FindForReport(faculty, subject, startDate, endDate))
  IN
  /\ res' = IF fault
            THEN Response("report", req, 500, MSG_REPORT_ERR, TRUE, NoBody)
            ELSE Response("report", req, 200, "", FALSE,
                          FormatReport(BuildReport(records, EmptyReport)))
  /\ UNCHANGED <<now, nodeEnv, store, timers, inflight>>

\* -------------------------------------------------------- getSessionDetails
\* Attendance.exists({_id: sessionId}) / findOne({_id: sessionId, ...}):
\* casting a 24-character string that is not hexadecimal to ObjectId throws.
CastFails(sessionId) == ~sessionId.hex

Exists(sessionId) == sessionId.oid \in Stored

\* session.markedStudents.map(student => ({id, name, email}))
Roster(marked) ==
  [i \in 1..Len(marked) |->
     [id |-> User(marked[i])._id, name |-> User(marked[i]).name,
      email |-> User(marked[i]).email]]

\* getSessionDetails(req, res)
getSessionDetails(sessionId, faculty, existsFault, findFault) ==
  LET req == [sessionId |-> sessionId, faculty |-> faculty,
              fault |-> existsFault \/ findFault]
      Reply(code, message, data) ==
        Response("detail", req, code, message, FALSE, data)
  IN
  /\ UNCHANGED <<now, nodeEnv, store, timers, inflight>>
  /\ res' =
       IF sessionId.length = 0 THEN Reply(400, MSG_ID_REQUIRED, NoBody)
       ELSE IF faculty = NoUser THEN Reply(401, MSG_UNAUTH, NoBody)
       ELSE IF sessionId.length # OBJECT_ID_LENGTH
         THEN Reply(400, MSG_ID_FORMAT, NoBody)
       ELSE IF existsFault \/ CastFails(sessionId)
         THEN Reply(500, MSG_EXISTS_ERR, NoBody)
       ELSE IF ~Exists(sessionId) THEN Reply(404, MSG_NOT_FOUND, NoBody)
       ELSE IF findFault THEN Reply(500, MSG_FIND_ERR, NoBody)
       ELSE IF store[sessionId.oid].faculty # faculty
         THEN Reply(403, MSG_NO_ACCESS, NoBody)
       ELSE LET session == store[sessionId.oid]
            IN Reply(200, "",
                     [sessionId |-> sessionId, subject |-> session.subject,
                      classRoom |-> session.classRoom,
                      sessionDate |-> session.sessionDate,
                      status |-> session.status,
                      students |-> Roster(session.markedStudents)])

\* ------------------------------------------------------------ specification
Next ==
  \/ Tick
  \/ \E f \in Creators \cup {NoUser}, su \in Subjects \cup {Missing},
        c \in ClassRooms \cup {Missing}, rf \in BOOLEAN, sf \in BOOLEAN :
       generateSessionQR(f, su, c, rf, sf)
  \/ \E t \in timers, fault \in BOOLEAN : ExpiryFire(t, fault)
  \/ \E t \in timers, fault \in BOOLEAN : ExpirySave(t, fault)
  \/ \E st \in Students, q \in SessionIds \cup {BogusQr}, fault \in BOOLEAN :
       markAttendance(st, q, fault)
  \/ \E r \in Redeemers, fault \in BOOLEAN : markAttendanceSave(r, fault)
  \/ errorMiddleware

\* The session lifecycle and the error middleware.
Spec == Init /\ [][Next]_vars

\* The lifecycle under the scheduling of the event loop: time passes, a due
\* timer fires, an awaited save completes.
LiveSpec ==
  /\ Init
  /\ [][Next]_vars
  /\ WF_vars(Tick)
  /\ WF_vars(\E t \in timers, fault \in BOOLEAN : ExpiryFire(t, fault))
  /\ WF_vars(\E t \in timers, fault \in BOOLEAN : ExpirySave(t, fault))

\* The lifecycle with valid requests and a store that does not fail.
InitProduction == Init /\ nodeEnv = "production"

NextSteady ==
  \/ Tick
  \/ \E f \in Creators, su \in Subjects, c \in ClassRooms :
       generateSessionQR(f, su, c, FALSE, FALSE)
  \/ \E t \in timers : ExpiryFire(t, FALSE)
  \/ \E t \in timers : ExpirySave(t, FALSE)
  \/ \E st \in Students, q \in SessionIds : markAttendance(st, q, FALSE)
  \/ \E r \in Redeemers : markAttendanceSave(r, FALSE)

NextReport ==
  \/ NextSteady
  \/ \E f \in Faculty, su \in SubjectFilters, d \in DateRanges,
        fault \in BOOLEAN :
       getAttendanceReport(f, su, d[1], d[2], fault)

\* The steady lifecycle with faculty reports requested at any moment.
ReportSpec == InitProduction /\ [][NextReport]_vars

NextDetail ==
  \/ NextSteady
  \/ \E id \in SessionIdInputs, f \in Faculty \cup {NoUser},
        ef \in BOOLEAN, ff \in BOOLEAN :
       getSessionDetails(id, f, ef, ff)

\* The steady lifecycle with session details requested at any moment.
DetailSpec == InitProduction /\ [][NextDetail]_vars

\* ------------------------------------------------------------------ claims
MarkedSet(s) == {store[s].markedStudents[i] : i \in 1..Len(store[s].markedStudents)}

TimerPc(s) == {t.pc : t \in {u \in timers : u.sid = s}}

MarkSucceeded(r, s) ==
  r.op = "mark" /\ r.code = 200 /\ r.req.qrCode = store[s].qrCode

\* C1: once the stored status of a session is expired, no later step appends
\* a student to its markedStudents and no later step answers a markAttendance
\* request for its code with success.
C1_NoRedeemAfterExpired ==
  [][\A s \in Stored :
       store[s].status = "expired" =>
         /\ store'[s].markedStudents = store[s].markedStudents
         /\ ~MarkSucceeded(res', s)]_vars

\* C2: in every reachable state no student occurs twice in the
\* markedStudents of a session.
C2_RedeemersUnique ==
  \A s \in Stored :
    \A i, j \in 1..Len(store[s].markedStudents) :
      i # j => store[s].markedStudents[i] # store[s].markedStudents[j]

PastWindow(q) ==
  \E s \in Stored : store[s].qrCode = q /\ now > store[s].sessionDate + VALIDITY_MS

\* C3: a markAttendance whose lookup (not rejected by the store) happens
\* later than sessionDate + 2 minutes is answered 400 "Invalid or expired QR
\* code" and changes neither the store nor the pending saves, whatever the
\* stored status.
C3_PastWindowRejected ==
  [][\A st \in Students, q \in SessionIds :
       (PastWindow(q) /\ markAttendance(st, q, FALSE)) =>
         /\ res'.code = 400
         /\ res'.message = MSG_INVALID
         /\ store' = store
         /\ inflight' = inflight]_vars

\* C3 witness: a request for the code of a session that is past its window
\* and still stored active (its timer has not fired, or its flip failed) was
\* answered "Invalid or expired QR code".
C3_Witness ==
  /\ res.op = "mark"
  /\ res.message = MSG_INVALID
  /\ \E s \in Stored :
       /\ store[s].qrCode = res.req.qrCode
       /\ store[s].status = "active"
       /\ now > store[s].sessionDate + VALIDITY_MS
       /\ TimerPc(s) \subseteq {"armed", "failed"}

\* C4: the stored status of a session never changes from expired, whatever
\* saves of markAttendance and of the expiry callback interleave, and an
\* expiry callback that reads status expired writes nothing.
C4_StatusOnlyExpires ==
  [][/\ \A s \in Stored :
          store[s].status = "expired" => store'[s].status = "expired"
     /\ \A t \in timers :
          (t.pc = "armed" /\ store[t.sid].status = "expired"
             /\ ExpiryFire(t, FALSE)) =>
            (store' = store /\ TimerPc(t.sid)' = {"done"})]_vars

\* C4 witness: the save of a markAttendance landed on a session whose status
\* the expiry callback had already set to expired, and it is still expired.
C4_Witness ==
  \E s \in Stored :
    /\ store[s].status = "expired"
    /\ MarkSucceeded(res, s)
    /\ res.req.student \in MarkedSet(s)

IsPrefix(a, b) == Len(a) <= Len(b) /\ SubSeq(b, 1, Len(a)) = a

\* C5: in every step the markedStudents of every session keeps all its
\* elements (it only grows), a student answered with success is in it, and
\* a step that changes the status leaves it unchanged.
C5_RedeemersOnlyGrow ==
  [][\A s \in Stored :
       /\ IsPrefix(store[s].markedStudents, store'[s].markedStudents)
       /\ (store'[s].status # store[s].status =>
             store'[s].markedStudents = store[s].markedStudents)
       /\ (MarkSucceeded(res', s) =>
             \E i \in 1..Len(store'[s].markedStudents) :
               store'[s].markedStudents[i] = res'.req.student)]_vars

\* C5 witness: two students redeemed one session, the second save was
\* answered with success after the expiry callback flipped the status.
C5_Witness ==
  \E s \in Stored :
    /\ Cardinality(MarkedSet(s)) = 2
    /\ store[s].status = "expired"
    /\ res.op = "mark" /\ res.code = 200
    /\ res.req.student = store[s].markedStudents[2]

AlreadyRedeemed(st, q) ==
  \E s \in Stored :
    /\ store[s].qrCode = q
    /\ store[s].status = "active"
    /\ now <= store[s].sessionDate + VALIDITY_MS
    /\ st \in MarkedSet(s)

\* C6: a markAttendance (not rejected by the store) by a student already in
\* the markedStudents of the active, in-window session of the code is
\* answered 400 "Attendance already marked for this session" and leaves the
\* store and the pending saves as they were.
C6_DuplicateRejected ==
  [][\A st \in Students, q \in SessionIds :
       (AlreadyRedeemed(st, q) /\ markAttendance(st, q, FALSE)) =>
         /\ res'.code = 400
         /\ res'.message = MSG_ALREADY
         /\ store' = store
         /\ inflight' = inflight]_vars

\* C6 witness: a student stored once in an active session was answered
\* "Attendance already marked for this session".
C6_Witness ==
  /\ res.op = "mark"
  /\ res.code = 400
  /\ res.message = MSG_ALREADY
  /\ \E s \in Stored :
       /\ store[s].qrCode = res.req.qrCode
       /\ store[s].status = "active"
       /\ store[s].markedStudents = <<res.req.student>>

\* C7: for an authenticated faculty and a store that answers, getSessionDetails
\* answers 400 for an id that is not 24 characters long; else 404 when no
\* session has that id; else 403 when the session belongs to another faculty;
\* else 200 with the stored status and the full roster.
C7_DetailOutcomeOrder ==
  (res.op = "detail" /\ res.req.faculty \in Faculty /\ ~res.req.fault) =>
    LET id == res.req.sessionId
    IN IF id.length # OBJECT_ID_LENGTH THEN res.code = 400
       ELSE IF id.oid \notin Stored THEN res.code = 404
       ELSE IF store[id.oid].faculty # res.req.faculty THEN res.code = 403
       ELSE /\ res.code = 200
            /\ res.data.status = store[id.oid].status
            /\ Len(res.data.students) = Len(store[id.oid].markedStudents)
            /\ \A i \in 1..Len(res.data.students) :
                 res.data.students[i].id = store[id.oid].markedStudents[i]

\* C8: in a faculty report, for every subject of the selected sessions,
\* totalSessions is the number of distinct calendar dates of the sessions of
\* the subject and each student's attendanceCount is the number of sessions
\* of the subject whose markedStudents contains the student.
C8_ReportCounts ==
  (res.op = "report" /\ res.code = 200) =>
    LET selected == FindForReport(res.req.faculty, res.req.subject,
                                  res.req.startDate, res.req.endDate)
        Of(su) == {s \in selected : store[s].subject = su}
    IN /\ DOMAIN res.data = {store[s].subject : s \in selected}
       /\ \A su \in DOMAIN res.data :
            /\ res.data[su].totalSessions =
                 Cardinality({store[s].sessionDate \div DAY_MS : s \in Of(su)})
            /\ DOMAIN res.data[su].students =
                 UNION {MarkedSet(s) : s \in Of(su)}
            /\ \A st \in DOMAIN res.data[su].students :
                 res.data[su].students[st].attendanceCount =
                   Cardinality({s \in Of(su) : st \in MarkedSet(s)})

\* C9: outside development mode no response with status 500 carries the
\* message of the internal error.
C9_FaultDetailSuppressed ==
  (nodeEnv # "development" /\ res.code = 500) => ~res.error

\* C10: every stored session has exactly one expiry timer and no other
\* session has one; a generateSessionQR that fails schedules none; a timer
\* fires once, not before sessionDate + 2 minutes; every stored session
\* eventually has status expired unless a store call of its expiry callback
\* failed, and an expired status stays.
C10_ExpiryScheduledOnce ==
  /\ [](\A s \in SessionIds :
          Cardinality({t \in timers : t.sid = s}) = IF s \in Stored THEN 1 ELSE 0)
  /\ [](\A t \in timers :
          t.pc # "armed" => now >= store[t.sid].sessionDate + EXPIRY_DELAY_MS)
  /\ [][/\ (res'.op = "generate" /\ res'.code # 200) => timers' = timers
        /\ \A t \in timers : t.pc # "armed" => "armed" \notin TimerPc(t.sid)'
        /\ \A s \in Stored :
             store[s].status = "expired" => store'[s].status = "expired"]_vars
  /\ \A s \in SessionIds :
       (s \in Stored) ~>
         (s \in Stored /\ (store[s].status = "expired" \/ "failed" \in TimerPc(s)))

\* C10 witness: the expiry callback of a session ran to its end and the
\* session is stored expired.
C10_Witness ==
  \E s \in Stored : store[s].status = "expired" /\ TimerPc(s) = {"done"}

====
